---------------------------- MODULE Spec2Model ----------------------------
(***************************************************************************)
(* Model of the hashtag-graph average-degree program:                      *)
(*   src/src/minpq.py          indexedMinPQ (indexed binary min-heap)      *)
(*   src/src/graph.py          TimeWindowGraph (graph with expiring links) *)
(*   src/src/average_degree.py main (the per-event driving loop)           *)
(* Objects are records whose fields carry the names of the attributes in   *)
(* the source (without the leading underscore); every method is an         *)
(* operator from the object (and arguments) to the object after the call   *)
(* and the value returned.  The code is Python 2: "/" on ints is floor     *)
(* division, and None orders below every int.                              *)
(***************************************************************************)
EXTENDS Integers, Sequences, FiniteSets, TLC

VARIABLES
    pq,              \* a stand-alone indexedMinPQ (minpq.py main: pq)
    pq_keys,         \* number of distinct keys handed to pq.add so far
    pop_last,        \* Some(value) returned by the last call on pq if it was
                     \* a pop_min that returned a pair, else None
    num_links,       \* TimeWindowGraph.num_links
    num_nodes,       \* TimeWindowGraph.num_nodes
    current_time,    \* TimeWindowGraph.current_time
    graph_structure, \* TimeWindowGraph._graph_structure: node -> set of nodes
    linkheap,        \* TimeWindowGraph._linkheap
    last_call,       \* the last public call made on the graph: [op, args, ret]
    calls,           \* number of public graph calls made (SpecDeep only)
    time_threshold,  \* average_degree.main: time_threshold
    f_out,           \* average_degree.main: lines written to the output file
    event,           \* average_degree.main: the last (timestamp, hashtags) read
    scenario         \* how far the events read so far follow the spec's scenario

vars == << pq, pq_keys, pop_last,
           num_links, num_nodes, current_time, graph_structure, linkheap,
           last_call, calls, time_threshold, f_out, event, scenario >>

pqVars    == << pq, pq_keys, pop_last >>
graphVars == << num_links, num_nodes, current_time, graph_structure, linkheap,
                last_call, calls >>
mainVars  == << time_threshold, f_out, event, scenario >>

(***************************************************************************)
(* Python values.  None is <<>> where a call returns a pair or a value     *)
(* that is inspected; Some(v) is <<v>>.                                    *)
(***************************************************************************)
None == << >>
Some(v) == << v >>

(***************************************************************************)
(* minpq.py: indexedMinPQ                                                  *)
(***************************************************************************)

\* np.zeros(n): indices 0..n-1, all 0.
np_zeros(n) == [i \in 0..(n - 1) |-> 0]

len(a) == Cardinality(DOMAIN a)

\* np.resize(a, n): the first n elements of a repeated as often as needed.
np_resize(a, n) == [i \in 0..(n - 1) |-> a[i % len(a)]]

\* indexedMinPQ.__init__
PQInit ==
    [ array        |-> np_zeros(2),
      heap_size    |-> 0,
      index_to_key |-> << >>,
      key_to_index |-> << >> ]

parent(index) == index \div 2
left(index)   == index * 2
right(index)  == index * 2 + 1

\* dict item assignment d[k] = v and deletion del d[k]
DictSet(d, k, v) == [x \in (DOMAIN d) \cup {k} |-> IF x = k THEN v ELSE d[x]]
DictDel(d, k)    == [x \in (DOMAIN d) \ {k} |-> d[x]]

\* _swap without its lines 178-179: the values and _index_to_key are swapped,
\* _key_to_index is left as it was
swap_one_table(self, index1, index2) ==
    LET key1 == self.index_to_key[index1]
        key2 == self.index_to_key[index2]
        arr  == [self.array EXCEPT ![index1] = self.array[index2],
                                   ![index2] = self.array[index1]]
        i2k  == DictSet(DictSet(self.index_to_key, index1, key2), index2, key1)
    IN  [self EXCEPT !.array = arr, !.index_to_key = i2k]

\* indexedMinPQ._swap
swap(self, index1, index2) ==
    LET key1 == self.index_to_key[index1]
        key2 == self.index_to_key[index2]
        arr  == [self.array EXCEPT ![index1] = self.array[index2],
                                   ![index2] = self.array[index1]]
        i2k  == DictSet(DictSet(self.index_to_key, index1, key2), index2, key1)
        k2i  == DictSet(DictSet(self.key_to_index, key1, index2), key2, index1)
    IN  [self EXCEPT !.array = arr, !.index_to_key = i2k, !.key_to_index = k2i]

\* indexedMinPQ._bubble_up
RECURSIVE bubble_up(_, _)
bubble_up(self, index) ==
    IF parent(index) >= 1 /\ self.array[parent(index)] > self.array[index]
    THEN bubble_up(swap(self, index, parent(index)), parent(index))
    ELSE self

\* indexedMinPQ._bubble_down
RECURSIVE bubble_down(_, _)
bubble_down(self, index) ==
    IF left(index) <= self.heap_size
    THEN LET temp0 == left(index)
             temp  == IF temp0 < self.heap_size
                         /\ self.array[temp0] > self.array[right(index)]
                      THEN temp0 + 1 ELSE temp0
         IN  IF self.array[temp] > self.array[index]
             THEN self
             ELSE bubble_down(swap(self, index, temp), temp)
    ELSE self

\* indexedMinPQ.add: the queue after the call and the value returned.  The
\* first statement writes slot heap_size + 1; outside the array numpy raises
\* IndexError before anything is changed (raised).
pq_add(self, key, value) ==
    LET \* lines 43-47: the value in the next slot, the dicts updated
        appended(s) ==
            [s EXCEPT !.array[s.heap_size + 1] = value,
                      !.heap_size = s.heap_size + 1,
                      !.index_to_key = DictSet(@, s.heap_size + 1, key),
                      !.key_to_index = DictSet(@, key, s.heap_size + 1)]
        \* lines 52-53
        doubled(s) ==
            IF s.heap_size + 1 = len(s.array)
            THEN [s EXCEPT !.array = np_resize(@, len(@) * 2)]
            ELSE s
    IN  IF key \in DOMAIN self.key_to_index
        THEN [pq |-> self, ret |-> FALSE, raised |-> FALSE]
        ELSE IF self.heap_size + 1 \notin DOMAIN self.array
        THEN [pq |-> self, ret |-> FALSE, raised |-> TRUE]
        ELSE [pq     |-> doubled(bubble_up(appended(self), self.heap_size + 1)),
              ret    |-> TRUE,
              raised |-> FALSE]

\* remove with its line 81 resizing to a quarter instead of a half
pq_remove_to_quarter(self, key) ==
    LET index == self.key_to_index[key]
        last_dropped(s) ==
            [s EXCEPT !.key_to_index = DictDel(@, s.index_to_key[s.heap_size]),
                      !.index_to_key = DictDel(@, s.heap_size),
                      !.heap_size = s.heap_size - 1]
        quartered(s) ==
            IF s.heap_size <= len(s.array) \div 4 /\ s.heap_size > 3
            THEN [s EXCEPT !.array = np_resize(@, len(@) \div 4)]
            ELSE s
    IN  IF key \notin DOMAIN self.key_to_index
        THEN [pq |-> self, ret |-> FALSE]
        ELSE [pq  |-> quartered(bubble_down(
                          last_dropped(swap(self, self.heap_size, index)), index)),
              ret |-> TRUE]

\* indexedMinPQ.remove
pq_remove(self, key) ==
    LET index == self.key_to_index[key]
        \* lines 73-75
        last_dropped(s) ==
            [s EXCEPT !.key_to_index = DictDel(@, s.index_to_key[s.heap_size]),
                      !.index_to_key = DictDel(@, s.heap_size),
                      !.heap_size = s.heap_size - 1]
        \* lines 80-81
        halved(s) ==
            IF s.heap_size <= len(s.array) \div 4 /\ s.heap_size > 3
            THEN [s EXCEPT !.array = np_resize(@, len(@) \div 2)]
            ELSE s
    IN  IF key \notin DOMAIN self.key_to_index
        THEN [pq |-> self, ret |-> FALSE]
        ELSE [pq  |-> halved(bubble_down(
                          last_dropped(swap(self, self.heap_size, index)), index)),
              ret |-> TRUE]

\* indexedMinPQ.update
pq_update(self, key, value) ==
    LET index == self.key_to_index[key]
        \* lines 101-104
        heapified(s) ==
            IF value < s.array[parent(index)]
            THEN bubble_up(s, index)
            ELSE bubble_down(s, index)
    IN  IF key \notin DOMAIN self.key_to_index
        THEN [pq |-> self, ret |-> FALSE]
        ELSE [pq  |-> heapified([self EXCEPT !.array[index] = value]),
              ret |-> TRUE]

\* indexedMinPQ.value
pq_value(self, key) ==
    IF key \in DOMAIN self.key_to_index
    THEN Some(self.array[self.key_to_index[key]])
    ELSE None

\* indexedMinPQ.peek_min: <<key, value>>, or None for (None, None)
pq_peek_min(self) ==
    IF self.heap_size = 0
    THEN None
    ELSE << self.index_to_key[1], self.array[1] >>

\* indexedMinPQ.pop_min
pq_pop_min(self) ==
    IF self.heap_size = 0
    THEN [pq |-> self, ret |-> None]
    ELSE LET key   == self.index_to_key[1]
             value == self.array[1]
         IN  [pq |-> pq_remove(self, key).pq, ret |-> << key, value >>]

\* indexedMinPQ.size
pq_size(self) == self.heap_size

(***************************************************************************)
(* graph.py: TimeWindowGraph.  Nodes are integers (any immutable values    *)
(* with "<" will do, says the class comment); a link's key in the heap is  *)
(* the pair with the smaller node first.                                   *)
(***************************************************************************)

\* TimeWindowGraph.__init__
GraphInit(window_size) ==
    [ window_size     |-> window_size,
      num_links       |-> 0,
      num_nodes       |-> 0,
      current_time    |-> 0,
      graph_structure |-> << >>,
      linkheap        |-> PQInit ]

\* the key of a link without the ordering of its nodes: (node1, node2) as given
node_pair_as_given(node1, node2) == << node1, node2 >>

\* node_pair = (node1, node2) if node1 < node2 else (node2, node1)
node_pair(node1, node2) ==
    IF node1 < node2 THEN << node1, node2 >> ELSE << node2, node1 >>

\* TimeWindowGraph.check_node
check_node(self, node) == node \in DOMAIN self.graph_structure

\* add_node with its line 67 moved out of the if: num_nodes grows also when
\* the node is there already
add_node_counts_again(self, node) ==
    IF node \notin DOMAIN self.graph_structure
    THEN [g   |-> [self EXCEPT !.graph_structure = DictSet(@, node, {}),
                               !.num_nodes = @ + 1],
          ret |-> TRUE]
    ELSE [g |-> [self EXCEPT !.num_nodes = @ + 1], ret |-> FALSE]

\* TimeWindowGraph.add_node
add_node(self, node) ==
    IF node \notin DOMAIN self.graph_structure
    THEN [g   |-> [self EXCEPT !.graph_structure = DictSet(@, node, {}),
                               !.num_nodes = @ + 1],
          ret |-> TRUE]
    ELSE [g |-> self, ret |-> FALSE]

\* TimeWindowGraph.check_link: -1 or the link's time.  value() returns None
\* only for a link the heap does not hold; None is below 0 for every caller.
check_link(self, node1, node2) ==
    LET time_of(v) == IF v = None THEN -1 ELSE v[1]
    IN  IF ~check_node(self, node1) \/ ~check_node(self, node2) \/ node1 = node2
        THEN -1
        ELSE IF node1 \in DOMAIN self.graph_structure
                /\ node2 \in self.graph_structure[node1]
        THEN time_of(pq_value(self.linkheap, node_pair(node1, node2)))
        ELSE -1

\* remove_link without its line 174: node1 stays in node2's set
remove_link_one_sided(self, node1, node2) ==
    LET removed(r) ==
            IF r.ret
            THEN [g   |-> [self EXCEPT
                             !.linkheap = r.pq,
                             !.graph_structure = [@ EXCEPT ![node1] = @ \ {node2}],
                             !.num_links = @ - 1],
                  ret |-> TRUE]
            ELSE [g |-> self, ret |-> FALSE]
    IN  IF check_link(self, node1, node2) < 0
        THEN [g |-> self, ret |-> FALSE]
        ELSE removed(pq_remove(self.linkheap, node_pair(node1, node2)))

\* TimeWindowGraph.remove_link
remove_link(self, node1, node2) ==
    LET \* lines 172-178, r what _linkheap.remove gave
        removed(r) ==
            IF r.ret
            THEN [g   |-> [self EXCEPT
                             !.linkheap = r.pq,
                             !.graph_structure =
                                 [@ EXCEPT ![node1] = @ \ {node2},
                                           ![node2] = @ \ {node1}],
                             !.num_links = @ - 1],
                  ret |-> TRUE]
            ELSE [g |-> self, ret |-> FALSE]
    IN  IF check_link(self, node1, node2) < 0
        THEN [g |-> self, ret |-> FALSE]
        ELSE removed(pq_remove(self.linkheap, node_pair(node1, node2)))

\* remove_node without its lines 82-85: the node's links are not removed
remove_links_of_none(self, node, links_info) == {self}

\* The loop of remove_node over links_info, a copy of the node's set: Python
\* fixes no order for a set, so every order is an outcome.
RECURSIVE remove_links_of(_, _, _)
remove_links_of(self, node, links_info) ==
    IF links_info = {}
    THEN {self}
    ELSE UNION { remove_links_of(remove_link(self, node, node2).g, node,
                                 links_info \ {node2}) : node2 \in links_info }

\* TimeWindowGraph.remove_node: the set of outcomes [g, ret]
remove_node(self, node) ==
    IF node \in DOMAIN self.graph_structure
    THEN { [g   |-> [s EXCEPT !.graph_structure = DictDel(@, node),
                              !.num_nodes = @ - 1],
            ret |-> TRUE]
           : s \in remove_links_of(self, node, self.graph_structure[node]) }
    ELSE { [g |-> self, ret |-> FALSE] }

\* remove_min_link without its line 196: num_links is not decreased
remove_min_link_keeps_count(self) ==
    LET popped(r) ==
            IF r.ret = None
            THEN [g |-> self, ret |-> None]
            ELSE LET node1 == r.ret[1][1]
                     node2 == r.ret[1][2]
                 IN  [g   |-> [self EXCEPT
                                 !.linkheap = r.pq,
                                 !.graph_structure =
                                     [@ EXCEPT ![node1] = @ \ {node2},
                                               ![node2] = @ \ {node1}]],
                      ret |-> r.ret]
    IN  IF self.num_links = 0
        THEN [g |-> self, ret |-> None]
        ELSE popped(pq_pop_min(self.linkheap))

\* TimeWindowGraph.remove_min_link
remove_min_link(self) ==
    LET \* lines 192-197, r what _linkheap.pop_min gave
        popped(r) ==
            IF r.ret = None
            THEN [g |-> self, ret |-> None]  \* unpacking (None, None) raises
            ELSE LET node1 == r.ret[1][1]
                     node2 == r.ret[1][2]
                 IN  [g   |-> [self EXCEPT
                                 !.linkheap = r.pq,
                                 !.graph_structure =
                                     [@ EXCEPT ![node1] = @ \ {node2},
                                               ![node2] = @ \ {node1}],
                                 !.num_links = @ - 1],
                      ret |-> r.ret]
    IN  IF self.num_links = 0
        THEN [g |-> self, ret |-> None]
        ELSE popped(pq_pop_min(self.linkheap))

\* _remove_old_links without its lines 247-250: nodes left without a link
\* stay in the graph
remove_isolated_never(self, node) == self

\* lines 247-250 without their tests: the node is removed with the links it has
remove_isolated_always(self, node) ==
    (CHOOSE r \in remove_node(self, node) : TRUE).g

\* remove_node as called by _remove_old_links: on a node with no link left,
\* so that the loop over links_info is empty and the outcome is one.
remove_isolated(self, node) ==
    IF self.graph_structure[node] = {}
    THEN (CHOOSE r \in remove_node(self, node) : TRUE).g
    ELSE self

\* the while loop of _remove_old_links without its lines 249-250: only the
\* first node of the removed link is looked at
RECURSIVE old_links_loop_first_node(_, _)
old_links_loop_first_node(self, threshold) ==
    LET m == pq_peek_min(self.linkheap)
        isolated_removed(r) == remove_isolated(r.g, r.ret[1][1])
        again(g) == IF g.num_links = 0
                    THEN g
                    ELSE old_links_loop_first_node(g, threshold)
    IN  IF m = None
        THEN self
        ELSE IF m[2] <= threshold
        THEN again(isolated_removed(remove_min_link(self)))
        ELSE self

\* The while loop of _remove_old_links, entered with num_links > 0.
RECURSIVE old_links_loop(_, _)
old_links_loop(self, threshold) ==
    LET m == pq_peek_min(self.linkheap)
        \* lines 247-250, r what remove_min_link gave
        isolated_removed(r) ==
            remove_isolated(remove_isolated(r.g, r.ret[1][1]), r.ret[1][2])
        \* lines 251-253
        again(g) == IF g.num_links = 0 THEN g ELSE old_links_loop(g, threshold)
    IN  IF m = None
        THEN self                       \* unpacking (None, None) raises
        ELSE IF m[2] <= threshold
        THEN again(isolated_removed(remove_min_link(self)))
        ELSE self

\* _remove_old_links followed by a sweep of every node that has no link,
\* whether or not a link of it was removed
remove_old_links_sweeps(self) ==
    LET swept(g) ==
            [g EXCEPT
               !.graph_structure =
                   [n \in {m \in DOMAIN g.graph_structure :
                             g.graph_structure[m] # {}} |-> g.graph_structure[n]],
               !.num_nodes =
                   Cardinality({m \in DOMAIN g.graph_structure :
                                  g.graph_structure[m] # {}})]
    IN  IF self.num_links = 0
        THEN self
        ELSE swept(old_links_loop(self, self.current_time - self.window_size))

\* The while loop of _remove_old_links, entered with num_links > 0, as the
\* sequence of the graphs at the end of each of its iterations.
RECURSIVE old_links_steps(_, _)
old_links_steps(self, threshold) ==
    LET m == pq_peek_min(self.linkheap)
        isolated_removed(r) ==
            remove_isolated(remove_isolated(r.g, r.ret[1][1]), r.ret[1][2])
        more(g) ==
            << g >> \o (IF g.num_links = 0
                        THEN << >>
                        ELSE old_links_steps(g, threshold))
    IN  IF m = None
        THEN << >>
        ELSE IF m[2] <= threshold
        THEN more(isolated_removed(remove_min_link(self)))
        ELSE << >>

\* TimeWindowGraph._remove_old_links
remove_old_links(self) ==
    IF self.num_links = 0
    THEN self
    ELSE old_links_loop(self, self.current_time - self.window_size)

\* set_current_time without its line 227: current_time is not assigned
set_current_time_keeps_time(self, time) ==
    LET cleaned(s) == IF s.num_links > 0 THEN remove_old_links(s) ELSE s
    IN  IF time >= 0 THEN cleaned(self) ELSE self

\* TimeWindowGraph.set_current_time
set_current_time(self, time) ==
    LET cleaned(s) == IF s.num_links > 0 THEN remove_old_links(s) ELSE s
    IN  IF time >= 0
        THEN cleaned([self EXCEPT !.current_time = time])
        ELSE self

\* TimeWindowGraph.add_link
add_link(self, node1, node2, time) ==
    LET \* lines 127-130, r what _linkheap.add gave.  (Were r.raised, the
        \* IndexError would leave add_link here; add doubles the array as
        \* soon as the next slot would be outside.)
        linked(r) ==
            [self EXCEPT
               !.linkheap = r.pq,
               !.graph_structure = [@ EXCEPT ![node1] = @ \cup {node2},
                                             ![node2] = @ \cup {node1}],
               !.num_links = @ + 1]
        \* lines 132-133
        timed(s) == IF time > s.current_time THEN set_current_time(s, time) ELSE s
    IN  IF ~check_node(self, node1) \/ ~check_node(self, node2)
           \/ node1 = node2 \/ check_link(self, node1, node2) >= 0
        THEN [g |-> self, ret |-> FALSE]
        ELSE [g   |-> timed(linked(pq_add(self.linkheap,
                                          node_pair(node1, node2), time))),
              ret |-> TRUE]

\* TimeWindowGraph.update_link
update_link(self, node1, node2, time) ==
    LET \* lines 152-153
        timed(s) == IF time > s.current_time THEN set_current_time(s, time) ELSE s
        \* lines 150-156, r what _linkheap.update gave
        updated(r) ==
            IF r.ret
            THEN [g |-> timed([self EXCEPT !.linkheap = r.pq]), ret |-> TRUE]
            ELSE [g |-> self, ret |-> FALSE]
    IN  IF check_link(self, node1, node2) < 0
        THEN [g |-> self, ret |-> FALSE]
        ELSE updated(pq_update(self.linkheap, node_pair(node1, node2), time))

\* average_degree without float() in its line 219: "/" on two ints is floor
\* division
average_degree_floor(self) ==
    IF self.num_nodes = 0
    THEN << 0, 1 >>
    ELSE << (2 * self.num_links) \div self.num_nodes, 1 >>

\* TimeWindowGraph.average_degree: 0 or 2 * num_links / float(num_nodes), as
\* the fraction <<numerator, denominator>>
average_degree(self) ==
    IF self.num_nodes = 0
    THEN << 0, 1 >>
    ELSE << 2 * self.num_links, self.num_nodes >>

(***************************************************************************)
(* The state: one stand-alone queue, one graph, and the driving loop of    *)
(* average_degree.main around that graph.                                  *)
(***************************************************************************)

\* window_size of average_degree.main
WindowSize == 60

\* The graph object made of the variables, and the variables set from it.
Self ==
    [ window_size     |-> WindowSize,
      num_links       |-> num_links,
      num_nodes       |-> num_nodes,
      current_time    |-> current_time,
      graph_structure |-> graph_structure,
      linkheap        |-> linkheap ]

\* The slots of _array above _heap_size (and slot 0) are dead storage: add
\* writes slot heap_size + 1 before anything reads it, _bubble_down reads no
\* index above heap_size, and slot 0, which update reads as the parent of the
\* root, is never written and stays 0.  The graph's heap is kept with its dead
\* slots at 0; the stand-alone queue pq keeps them as numpy leaves them.
dead_slots_cleared(q) ==
    [q EXCEPT !.array = [i \in DOMAIN q.array |->
                            IF i \in 1..q.heap_size THEN q.array[i] ELSE 0]]

SetSelf(g) ==
    /\ num_links' = g.num_links
    /\ num_nodes' = g.num_nodes
    /\ current_time' = g.current_time
    /\ graph_structure' = g.graph_structure
    /\ linkheap' = dead_slots_cleared(g.linkheap)

\* pq = indexedMinPQ(dtype='int')
PQStart ==
    /\ pq = PQInit
    /\ pq_keys = 0
    /\ pop_last = None

\* gr = TimeWindowGraph(window_size=window_size)
GraphStart ==
    LET new(g) ==
            /\ num_links = g.num_links
            /\ num_nodes = g.num_nodes
            /\ current_time = g.current_time
            /\ graph_structure = g.graph_structure
            /\ linkheap = g.linkheap
    IN  /\ new(GraphInit(WindowSize))
        /\ last_call = [op |-> "init", args |-> << >>, ret |-> None]
        /\ calls = 0

\* time_threshold = gr.current_time - window_size, before the first line
MainStart ==
    /\ time_threshold = GraphInit(WindowSize).current_time - WindowSize
    /\ f_out = << >>
    /\ event = None
    /\ scenario = 0

Init == PQStart /\ GraphStart /\ MainStart

(***************************************************************************)
(* Calls on the stand-alone queue.  Keys are distinct: add is given the    *)
(* next key never used before, or a key the queue has seen.                *)
(***************************************************************************)
MaxKeys  == 6
MaxValue == 1

PQValues == 0..MaxValue

\* pq.add(key, value) with a key never used before
PQAdd ==
    \E value \in PQValues :
        /\ pq_keys < MaxKeys
        /\ pq' = pq_add(pq, pq_keys + 1, value).pq
        /\ pq_keys' = pq_keys + 1
        /\ pop_last' = None

\* pq.remove(key)
PQRemove ==
    \E key \in 1..pq_keys :
        /\ pq' = pq_remove(pq, key).pq
        /\ pop_last' = None
        /\ UNCHANGED pq_keys

\* pq.update(key, value)
PQUpdate ==
    \E key \in 1..pq_keys, value \in PQValues :
        /\ pq' = pq_update(pq, key, value).pq
        /\ pop_last' = None
        /\ UNCHANGED pq_keys

\* pq.pop_min()
PQPopMin ==
    LET popped(r) ==
            /\ pq' = r.pq
            /\ pop_last' = IF r.ret = None THEN None ELSE Some(r.ret[2])
    IN  /\ popped(pq_pop_min(pq))
        /\ UNCHANGED pq_keys

\* a call on pq leaves the graph and the driving loop alone
PQFrame == UNCHANGED << graphVars, mainVars >>

PQNext ==
    \/ PQAdd /\ PQFrame
    \/ PQRemove /\ PQFrame
    \/ PQUpdate /\ PQFrame
    \/ PQPopMin /\ PQFrame

SpecPQ == Init /\ [][PQNext]_vars

(***************************************************************************)
(* Public calls on the graph, with nodes from N and times from T           *)
(***************************************************************************)
NumNodes == 3
MaxTicks == 3

Nodes == 1..NumNodes
\* times half a window apart: 0, 30, 60, 90
Times == { 30 * k : k \in 0..MaxTicks }

\* A call, the graph after it and what it returned: Some(True), Some(False),
\* None, or the pair that remove_min_link returns.
Call(op, args, g, ret) ==
    /\ SetSelf(g)
    /\ last_call' = [op |-> op, args |-> args, ret |-> ret]

\* A call of a method that returns a bool, r its outcome [g, ret]
CallBool(op, args, r) == Call(op, args, r.g, Some(r.ret))

\* gr.add_node(node)
AddNode(N) ==
    \E node \in N :
        CallBool("add_node", << node >>, add_node(Self, node))

\* gr.remove_node(node)
RemoveNode(N) ==
    \E node \in N : \E r \in remove_node(Self, node) :
        CallBool("remove_node", << node >>, r)

\* gr.add_link(node1, node2, time)
AddLink(N, T) ==
    \E node1 \in N, node2 \in N, time \in T :
        CallBool("add_link", << node1, node2, time >>,
                 add_link(Self, node1, node2, time))

\* gr.update_link(node1, node2, time)
UpdateLink(N, T) ==
    \E node1 \in N, node2 \in N, time \in T :
        CallBool("update_link", << node1, node2, time >>,
                 update_link(Self, node1, node2, time))

\* gr.remove_link(node1, node2)
RemoveLink(N) ==
    \E node1 \in N, node2 \in N :
        CallBool("remove_link", << node1, node2 >>,
                 remove_link(Self, node1, node2))

\* gr.remove_min_link()
RemoveMinLink ==
    LET called(r) == Call("remove_min_link", << >>, r.g, r.ret)
    IN  called(remove_min_link(Self))

\* gr.set_current_time(time), also with a negative time (ignored)
SetCurrentTime(T) ==
    \E time \in T \cup {-30} :
        Call("set_current_time", << time >>, set_current_time(Self, time), None)

\* a call on the graph leaves pq and the driving loop alone
GraphFrame == UNCHANGED << calls, pqVars, mainVars >>

GraphNext ==
    \/ AddNode(Nodes) /\ GraphFrame
    \/ RemoveNode(Nodes) /\ GraphFrame
    \/ AddLink(Nodes, Times) /\ GraphFrame
    \/ UpdateLink(Nodes, Times) /\ GraphFrame
    \/ RemoveLink(Nodes) /\ GraphFrame
    \/ RemoveMinLink /\ GraphFrame
    \/ SetCurrentTime(Times) /\ GraphFrame

SpecGraph == Init /\ [][GraphNext]_vars

(***************************************************************************)
(* A graph with six links: the complete graph on DeepNodes nodes, built    *)
(* by add_node and add_link calls on a new graph, then MaxCalls public     *)
(* calls of any kind.                                                      *)
(***************************************************************************)
DeepNodes == 4
MaxCalls  == 3

\* the add_link calls that build it, in order: (node1, node2, time)
DeepLinks ==
    << << 1, 2, 0 >>, << 1, 3, 30 >>, << 1, 4, 0 >>,
       << 2, 3, 30 >>, << 2, 4, 30 >>, << 3, 4, 0 >> >>

RECURSIVE add_nodes(_, _)
add_nodes(self, n) ==
    IF n = 0 THEN self ELSE add_node(add_nodes(self, n - 1), n).g

RECURSIVE add_links(_, _, _)
add_links(self, links, n) ==
    IF n = 0
    THEN self
    ELSE add_link(add_links(self, links, n - 1),
                  links[n][1], links[n][2], links[n][3]).g

DeepGraph ==
    add_links(add_nodes(GraphInit(WindowSize), DeepNodes), DeepLinks, Len(DeepLinks))

DeepStart ==
    LET built(g) ==
            /\ num_links = g.num_links
            /\ num_nodes = g.num_nodes
            /\ current_time = g.current_time
            /\ graph_structure = g.graph_structure
            /\ linkheap = dead_slots_cleared(g.linkheap)
    IN  /\ built(DeepGraph)
        /\ last_call = [op   |-> "add_link",
                        args |-> DeepLinks[Len(DeepLinks)],
                        ret  |-> Some(TRUE)]
        /\ calls = 0

\* one more of the MaxCalls calls
DeepFrame ==
    /\ calls < MaxCalls
    /\ calls' = calls + 1
    /\ UNCHANGED << pqVars, mainVars >>

DeepNext ==
    \/ DeepFrame /\ AddNode(1..DeepNodes)
    \/ DeepFrame /\ RemoveNode(1..DeepNodes)
    \/ DeepFrame /\ AddLink(1..DeepNodes, Times)
    \/ DeepFrame /\ UpdateLink(1..DeepNodes, Times)
    \/ DeepFrame /\ RemoveLink(1..DeepNodes)
    \/ DeepFrame /\ RemoveMinLink
    \/ DeepFrame /\ SetCurrentTime(Times)

DeepInit == PQStart /\ DeepStart /\ MainStart

SpecDeep == DeepInit /\ [][DeepNext]_vars

(***************************************************************************)
(* average_degree.py: main.  An input line is the pair extract_data makes  *)
(* of it: (timestamp, hashtags), hashtags sorted.  Hashtags are integers   *)
(* in the order of the strings they stand for: 1 for "a", ... 5 for "e".   *)
(***************************************************************************)

\* "%.2f" % x for x = num / den, in hundredths: the nearest hundredth.  (A
\* tie needs a number of nodes that is a multiple of 16.)
fmt2(x) == (200 * x[1] + x[2]) \div (2 * x[2])

\* the loops over i and j without the test of line 91: a link that is there
\* is given the tweet's timestamp, whatever its own
RECURSIVE pair_loop_always_updates(_, _, _, _, _)
pair_loop_always_updates(gr, timestamp, hashtags, i, j) ==
    LET linked(g) ==
            IF check_link(g, hashtags[i], hashtags[j]) < 0
            THEN add_link(g, hashtags[i], hashtags[j], timestamp).g
            ELSE update_link(g, hashtags[i], hashtags[j], timestamp).g
    IN  IF i > Len(hashtags)
        THEN gr
        ELSE IF j > Len(hashtags)
        THEN pair_loop_always_updates(gr, timestamp, hashtags, i + 1, i + 2)
        ELSE IF hashtags[i] = hashtags[j]
        THEN pair_loop_always_updates(gr, timestamp, hashtags, i, j + 1)
        ELSE pair_loop_always_updates(
                 linked(add_node(add_node(gr, hashtags[i]).g, hashtags[j]).g),
                 timestamp, hashtags, i, j + 1)

\* The body of the loops over i and j, from pair (i, j) on (1-based).
RECURSIVE pair_loop(_, _, _, _, _)
pair_loop(gr, timestamp, hashtags, i, j) ==
    LET \* lines 88-92, g the graph after the two add_node calls
        linked(g) ==
            LET timestamp_link == check_link(g, hashtags[i], hashtags[j])
            IN  IF timestamp_link < 0
                THEN add_link(g, hashtags[i], hashtags[j], timestamp).g
                ELSE IF timestamp_link < timestamp
                THEN update_link(g, hashtags[i], hashtags[j], timestamp).g
                ELSE g
    IN  IF i > Len(hashtags)
        THEN gr
        ELSE IF j > Len(hashtags)
        THEN pair_loop(gr, timestamp, hashtags, i + 1, i + 2)
        ELSE IF hashtags[i] = hashtags[j]
        THEN pair_loop(gr, timestamp, hashtags, i, j + 1)
        ELSE pair_loop(linked(add_node(add_node(gr, hashtags[i]).g, hashtags[j]).g),
                       timestamp, hashtags, i, j + 1)

\* One pass of the loop over the input lines, for a line that is a tweet:
\* the graph after it and the line written, if one is.
process_line(gr, threshold, timestamp, hashtags) ==
    LET \* lines 65-68
        timed(g) == IF timestamp > g.current_time
                    THEN set_current_time(g, timestamp)
                    ELSE g
        \* line 95
        written(g) == [g |-> g, out |-> Some(fmt2(average_degree(g)))]
    IN  IF timestamp <= threshold
        THEN [g |-> gr, out |-> None]
        ELSE written(pair_loop(timed(gr), timestamp, hashtags, 1, 2))

MaxEvents == 4

\* the tweets of the input file
Timestamps == { 10, 20, 80, 85 }
Hashtags   == { << >>, << 1 >>, << 1, 2 >>, << 1, 2, 3 >>, << 2, 3 >>,
                << 4, 5 >>, << 1, 1, 2 >> }

\* The scenario of the spec, section 8
ScenarioEvents ==
    << << 10, << 1, 2 >> >>, << 20, << 1, 2, 3 >> >>, << 85, << 4, 5 >> >> >>

\* for line in f_in: one tweet is read and handled
ReadLine ==
    \E timestamp \in Timestamps, hashtags \in Hashtags :
        LET handled(r) == SetSelf(r.g) /\ f_out' = f_out \o r.out
        IN  /\ Len(f_out) < MaxEvents
            /\ handled(process_line(Self, time_threshold, timestamp, hashtags))
            /\ event' = << timestamp, hashtags >>
            /\ scenario' = IF scenario >= 0 /\ scenario < Len(ScenarioEvents)
                              /\ ScenarioEvents[scenario + 1] = << timestamp, hashtags >>
                           THEN scenario + 1
                           ELSE -1
            /\ UNCHANGED << time_threshold, last_call, calls, pqVars >>

MainNext == ReadLine

SpecMain == Init /\ [][MainNext]_vars

(***************************************************************************)
(* The links the graph stores, as write() lists them, and their times      *)
(***************************************************************************)
Links ==
    { p \in (DOMAIN graph_structure) \X (DOMAIN graph_structure) :
        p[1] < p[2] /\ p[2] \in graph_structure[p[1]] }

LinkTime(p) == check_link(Self, p[1], p[2])

GraphState == << num_links, num_nodes, current_time, graph_structure, linkheap >>

(***************************************************************************)
(* Properties                                                              *)
(***************************************************************************)

LinksInWindow == \A p \in Links : LinkTime(p) > current_time - WindowSize

\* C1: in the driving loop, whenever an average degree is written every
\* stored link has a time greater than current_time - window_size, also
\* when tweets arrive out of order.
C1_EmittedLinksInWindow ==
    [][Len(f_out') > Len(f_out) => LinksInWindow']_vars

\* C2: after set_current_time(t) with t >= 0, whatever public calls came
\* before, every stored link has a time greater than t - window_size.
C2_WindowAfterSetTime ==
    (last_call.op = "set_current_time" /\ last_call.args[1] >= 0)
        => \A p \in Links : LinkTime(p) > last_call.args[1] - WindowSize

PeekMinIsMin ==
    LET is_min(m) ==
            /\ pq_value(pq, m[1]) = Some(m[2])
            /\ \A key \in DOMAIN pq.key_to_index : m[2] <= pq_value(pq, key)[1]
    IN  pq.heap_size > 0 => is_min(pq_peek_min(pq))

PopsAscend ==
    (pop_last # None /\ pop_last' # None) => pop_last[1] <= pop_last'[1]

\* C3: whatever add, remove, update and pop_min calls were made with distinct
\* keys, peek_min returns a stored pair whose value is the smallest stored,
\* and a pop_min that follows a pop_min returns a value at least as large.
C3_PeekAndPopMin == [] PeekMinIsMin /\ [][PopsAscend]_vars

\* C4: after every public call num_links is the size of the heap and the
\* number of links in the adjacency sets, and adjacency is symmetric.
C4_LinkCountAndSymmetry ==
    /\ num_links = pq_size(linkheap)
    /\ num_links = Cardinality(Links)
    /\ \A a \in DOMAIN graph_structure : \A b \in graph_structure[a] :
           b \in DOMAIN graph_structure /\ a \in graph_structure[b]

\* a node with two links was removed from a triangle
C4_Witness ==
    /\ last_call.op = "remove_node"
    /\ last_call.ret = Some(TRUE)
    /\ num_nodes = 2
    /\ num_links = 1

\* C5: no public call leaves current_time smaller than it was.
C5_CurrentTimeMonotone == [][current_time' >= current_time]_vars

\* C6: a tweet whose timestamp is at or below current_time - window_size when
\* it is read changes nothing in the graph and writes no line.
C6_OldEventSkipped ==
    [][ (event' # None /\ event'[1] <= current_time - WindowSize)
          => (GraphState' = GraphState /\ f_out' = f_out) ]_vars

\* C7: after every public call every stored link time is at most current_time.
C7_TimesAtMostCurrent == \A p \in Links : LinkTime(p) <= current_time

NoLink(a, b) ==
    check_node(Self, a) /\ check_node(Self, b) /\ a # b /\ check_link(Self, a, b) < 0

AddThenRemove(a, b, t) == remove_link(add_link(Self, a, b, t).g, a, b).g

Restored(g) == g.graph_structure = graph_structure /\ g.num_links = num_links

C9_UpdateToOlderTime ==
    [][ ( /\ last_call'.op = "update_link"
          /\ check_link(Self, last_call'.args[1], last_call'.args[2])
                 > last_call'.args[3] )
        => ( /\ last_call'.ret = Some(TRUE)
             /\ check_link(Self', last_call'.args[1], last_call'.args[2])
                    = last_call'.args[3]
             /\ current_time' = current_time ) ]_vars

\* C10: the scenario with window 60: (10, {a, b}) gives nodes a, b, one link
\* and 1.00; then (20, {a, b, c}) gives three nodes, three links, a-b at 20
\* and 2.00; then (85, {d, e}) leaves nodes d, e, the link d-e and 1.00.
C10_Scenario ==
    /\ scenario = 1 =>
         /\ DOMAIN graph_structure = {1, 2} /\ num_nodes = 2
         /\ Links = { << 1, 2 >> } /\ num_links = 1
         /\ f_out = << 100 >>
    /\ scenario = 2 =>
         /\ DOMAIN graph_structure = {1, 2, 3} /\ num_nodes = 3
         /\ Links = { << 1, 2 >>, << 1, 3 >>, << 2, 3 >> } /\ num_links = 3
         /\ LinkTime(<< 1, 2 >>) = 20
         /\ f_out = << 100, 200 >>
    /\ scenario = 3 =>
         /\ DOMAIN graph_structure = {4, 5} /\ num_nodes = 2
         /\ Links = { << 4, 5 >> } /\ num_links = 1
         /\ LinkTime(<< 4, 5 >>) = 85
         /\ f_out = << 100, 200, 100 >>

\* the three tweets of the scenario have been read
C10_Witness == scenario = 3 /\ event = ScenarioEvents[3] /\ Len(f_out) = 3

\* C11: in the driving loop current_time is 0 before any tweet is read, and
\* after each tweet it is the larger of what it was and the tweet's
\* timestamp: the largest timestamp read so far.
C11_CurrentTimeIsLargestSeen ==
    /\ [](event = None => current_time = 0)
    /\ [][current_time' = IF event'[1] > current_time
                          THEN event'[1]
                          ELSE current_time]_vars

\* a tweet older than current_time has been read
C11_Witness == event # None /\ event[1] < current_time /\ Len(f_out) >= 2

\* the call (op, args) is one the graph, as it is, must reject
Rejected(op, args) ==
    \/ op = "add_node" /\ check_node(Self, args[1])
    \/ op = "remove_node" /\ ~check_node(Self, args[1])
    \/ /\ op = "add_link"
       /\ \/ ~check_node(Self, args[1]) \/ ~check_node(Self, args[2])
          \/ args[1] = args[2]
          \/ check_link(Self, args[1], args[2]) >= 0
    \/ op \in {"update_link", "remove_link"} /\ check_link(Self, args[1], args[2]) < 0

\* C12: a call that must be rejected (add_node of a node that is there,
\* remove_node of one that is not, add_link with a node missing, with a = b
\* or with the link there, update_link and remove_link of a link that is not
\* there) returns False; every call that returns False, and
\* set_current_time with a negative time, leaves the whole graph as it was.
C12_RejectedCallsChangeNothing ==
    [][ /\ Rejected(last_call'.op, last_call'.args)
            => last_call'.ret = Some(FALSE)
        /\ ( \/ last_call'.ret = Some(FALSE)
             \/ last_call'.op = "set_current_time" /\ last_call'.args[1] < 0 )
            => GraphState' = GraphState ]_vars

\* add_link has been rejected on a graph that has a link
C12_Witness ==
    /\ last_call.op = "add_link"
    /\ last_call.ret = Some(FALSE)
    /\ num_links >= 1
    /\ check_link(Self, last_call.args[1], last_call.args[2]) >= 0

\* the fraction d is the number n / m
IsQuotient(d, n, m) == d[2] > 0 /\ d[1] * m = n * d[2]

\* C13: in every state of the graph average_degree() is 0 when num_nodes is
\* 0, and else the quotient of 2 * num_links by num_nodes.
C13_AverageDegree ==
    IF num_nodes = 0
    THEN IsQuotient(average_degree(Self), 0, 1)
    ELSE IsQuotient(average_degree(Self), 2 * num_links, num_nodes)

\* a graph whose average degree is no whole number
C13_Witness == num_nodes = 3 /\ num_links = 1

\* C14: after every add, remove, update and pop_min the heap is in order: for
\* every position i from 2 to the size, the value at position i \div 2 is at
\* most the value at position i.
C14_HeapOrder ==
    \A i \in 2..pq.heap_size : pq.array[parent(i)] <= pq.array[i]

\* node n is an end of link p
EndOf(n, p) == n = p[1] \/ n = p[2]

\* C15: set_current_time(t), t >= 0, adds no link and no node; it leaves
\* every link with a time above t - window_size, and every link it leaves
\* keeps its time; the nodes it removes are those that are an end of a link
\* it removed and of no link it left (a node without links stays).
C15_EvictionPass ==
    [][ (last_call'.op = "set_current_time" /\ last_call'.args[1] >= 0) =>
          /\ Links' \subseteq Links
          /\ DOMAIN graph_structure' \subseteq DOMAIN graph_structure
          /\ \A p \in Links :
                 LinkTime(p) > last_call'.args[1] - WindowSize => p \in Links'
          /\ \A p \in Links' : LinkTime(p)' = LinkTime(p)
          /\ \A n \in DOMAIN graph_structure :
                 n \notin DOMAIN graph_structure'
                     <=> /\ \E p \in Links \ Links' : EndOf(n, p)
                         /\ \A p \in Links' : ~EndOf(n, p) ]_vars

\* after set_current_time a node without links is all there is
C15_Witness ==
    /\ last_call.op = "set_current_time"
    /\ last_call.args[1] >= WindowSize
    /\ num_nodes = 1
    /\ num_links = 0

\* the links that node n is an end of
LinksOf(n) == { p \in Links : EndOf(n, p) }

\* C16: remove_node(n) of a node of the graph returns True; it takes the
\* links of n, and no other, out of the heap and out of the adjacency sets,
\* num_links goes down by their number and num_nodes by 1; the other nodes
\* stay, the other links keep their times, current_time stays.
C16_RemoveNode ==
    [][ (last_call'.op = "remove_node" /\ check_node(Self, last_call'.args[1])) =>
          /\ last_call'.ret = Some(TRUE)
          /\ Links' = Links \ LinksOf(last_call'.args[1])
          /\ DOMAIN linkheap'.key_to_index
                 = (DOMAIN linkheap.key_to_index) \ LinksOf(last_call'.args[1])
          /\ pq_size(linkheap')
                 = pq_size(linkheap) - Cardinality(LinksOf(last_call'.args[1]))
          /\ num_links' = num_links - Cardinality(LinksOf(last_call'.args[1]))
          /\ num_nodes' = num_nodes - 1
          /\ DOMAIN graph_structure'
                 = (DOMAIN graph_structure) \ {last_call'.args[1]}
          /\ \A m \in DOMAIN graph_structure' :
                 graph_structure'[m] = graph_structure[m] \ {last_call'.args[1]}
          /\ \A p \in Links' : LinkTime(p)' = LinkTime(p)
          /\ current_time' = current_time ]_vars

\* the node in the middle of two links has been removed
C16_Witness ==
    /\ last_call.op = "remove_node"
    /\ last_call.ret = Some(TRUE)
    /\ num_nodes = 2
    /\ num_links = 0
    /\ current_time > 0

\* C17: when add_link(a, b, t) returns True, the link a-b is there afterwards
\* with time t and current_time is the larger of what it was and t; when t is
\* above the old current_time, the links afterwards are the new link and the
\* old links with a time above t - window_size.
C17_AddLinkThenEvict ==
    [][ (last_call'.op = "add_link" /\ last_call'.ret = Some(TRUE)) =>
          /\ check_link(Self', last_call'.args[1], last_call'.args[2])
                 = last_call'.args[3]
          /\ current_time' = IF last_call'.args[3] > current_time
                             THEN last_call'.args[3]
                             ELSE current_time
          /\ last_call'.args[3] > current_time =>
                 Links' = { node_pair(last_call'.args[1], last_call'.args[2]) }
                          \cup { p \in Links :
                                   LinkTime(p) > last_call'.args[3] - WindowSize }
      ]_vars

\* C18: in the driving loop, from one tweet to the next a link that stays
\* keeps its time or gets a later one, and after a tweet the link between any
\* two different hashtags of it is there with a time that is at least the
\* tweet's timestamp.
C18_NeverDowngraded ==
    [][ /\ \A p \in Links \cap Links' : LinkTime(p)' >= LinkTime(p)
        /\ \A i \in DOMAIN event'[2], j \in DOMAIN event'[2] :
               event'[2][i] < event'[2][j] =>
                   /\ << event'[2][i], event'[2][j] >> \in Links'
                   /\ check_link(Self', event'[2][i], event'[2][j]) >= event'[1]
      ]_vars

\* a tweet has been read that is older than the link between its hashtags
C18_Witness ==
    /\ event # None
    /\ Len(event[2]) = 2
    /\ check_link(Self, event[2][1], event[2][2]) > event[1]

\* C19: links have no direction.  For all nodes a, b: check_link(a, b) is
\* check_link(b, a); update_link(b, a, t) and remove_link(b, a) return and
\* leave the graph as update_link(a, b, t) and remove_link(a, b) do; and
\* after add_link(a, b, t) has returned True, add_link(b, a, t2) returns False.
C19_LinksUnordered ==
    /\ \A a \in Nodes, b \in Nodes :
           /\ check_link(Self, a, b) = check_link(Self, b, a)
           /\ remove_link(Self, b, a) = remove_link(Self, a, b)
           /\ \A t \in Times : update_link(Self, b, a, t) = update_link(Self, a, b, t)
    /\ (last_call.op = "add_link" /\ last_call.ret = Some(TRUE)) =>
           \A t \in Times :
               ~add_link(Self, last_call.args[2], last_call.args[1], t).ret

\* a link has been added with its larger node first, beside another link
C19_Witness ==
    /\ last_call.op = "add_link"
    /\ last_call.ret = Some(TRUE)
    /\ last_call.args[1] > last_call.args[2]
    /\ num_links >= 2
    /\ check_link(Self, last_call.args[2], last_call.args[1]) = last_call.args[3]

\* the loop started on graph s has the iterations steps: at most as many as
\* s has links, each with one link less, the last giving what
\* _remove_old_links gives
LoopBounded(s, steps) ==
    /\ Len(steps) <= s.num_links
    /\ \A k \in 1..Len(steps) :
           /\ steps[k].num_links = s.num_links - k
           /\ pq_size(steps[k].linkheap) = pq_size(s.linkheap) - k
    /\ remove_old_links(s) = IF Len(steps) = 0 THEN s ELSE steps[Len(steps)]

\* the graph as set_current_time(time) hands it to _remove_old_links
TimeSet(time) == [Self EXCEPT !.current_time = time]

\* C20: the loop that set_current_time starts ends, after at most as many
\* iterations as the graph had links, each iteration removing one link.
C20_EvictionLoopBounded ==
    \A time \in Times :
        num_links > 0 =>
            LoopBounded(TimeSet(time),
                        old_links_steps(TimeSet(time), time - WindowSize))

\* one call of set_current_time has removed all six links
C20_Witness ==
    /\ last_call.op = "set_current_time"
    /\ calls = 1
    /\ num_links = 0
    /\ num_nodes = 0

(***************************************************************************)
(* A queue that grows and shrinks: add, remove and pop_min with enough     *)
(* keys for the array to be doubled to 16 slots and halved again.  The     *)
(* value of a key is its number, as link times grow with the order of      *)
(* arrival.                                                                *)
(***************************************************************************)
MaxAdds == 8

\* pq.add(key, key) with a key never used before
GrowAdd ==
    /\ pq_keys < MaxAdds
    /\ pq' = pq_add(pq, pq_keys + 1, pq_keys + 1).pq
    /\ pq_keys' = pq_keys + 1
    /\ pop_last' = None

GrowNext ==
    \/ GrowAdd /\ PQFrame
    \/ PQRemove /\ PQFrame
    \/ PQPopMin /\ PQFrame

SpecGrow == Init /\ [][GrowNext]_vars

\* C21: in the driving loop, whenever an average degree is written every node
\* of the graph has a link, and num_nodes is the number of these nodes.
C21_NoIsolatedNodeAtOutput ==
    /\ \A n \in DOMAIN graph_structure : graph_structure[n] # {}
    /\ num_nodes = Cardinality(DOMAIN graph_structure)

\* after a triangle (2.00 written) a later tweet has left two nodes
C21_Witness ==
    /\ Len(f_out) >= 2
    /\ f_out[Len(f_out) - 1] = 200
    /\ num_nodes = 2
    /\ event[1] = current_time

\* the keys held by the entries at the positions 1..heap_size
StoredKeys(self) == {self.index_to_key[i] : i \in DOMAIN self.index_to_key}

\* the two dicts are inverse bijections between 1..heap_size and the keys
TablesInverse(self) ==
    /\ DOMAIN self.index_to_key = 1..self.heap_size
    /\ DOMAIN self.key_to_index = StoredKeys(self)
    /\ \A i \in 1..self.heap_size :
            self.key_to_index[self.index_to_key[i]] = i
    /\ \A k \in DOMAIN self.key_to_index :
            self.index_to_key[self.key_to_index[k]] = k

\* C22: after every operation of the queue _index_to_key has exactly the keys
\* 1..heap_size, _key_to_index has exactly the stored keys, and the two are
\* inverse to each other; an add stores its key and no other call stores one.
C22_IndexTablesInverse ==
    /\ []TablesInverse(pq)
    /\ [][IF pq_keys' = pq_keys + 1
          THEN DOMAIN pq'.key_to_index = DOMAIN pq.key_to_index \cup {pq_keys'}
          ELSE DOMAIN pq'.key_to_index \subseteq DOMAIN pq.key_to_index]_vars

\* something was removed and the entries left are not in the order of their keys
C22_Witness ==
    /\ pq.heap_size >= 3
    /\ pq_keys > pq.heap_size
    /\ \E i \in 1..pq.heap_size : pq.index_to_key[i] # i
    /\ len(pq.array) = 8

\* C23: after every operation of the queue the array has more than
\* heap_size + 1 slots, so the slot heap_size + 1 the next add writes is in the
\* array and the add does not fail, doubling and halving included.
C23_CapacityAboveNextSlot ==
    /\ len(pq.array) > pq.heap_size + 1
    /\ pq.heap_size + 1 \in DOMAIN pq.array
    /\ ~pq_add(pq, pq_keys + 1, pq_keys + 1).raised

\* the array was doubled to 16 slots and is halved to 8: four of the keys 1..6
\* are left, so the 4 slots were doubled to 8 before key 7 came, and the value
\* 7 in slot 7 was written there when the queue had 7 entries and 16 slots
C23_Witness ==
    /\ len(pq.array) = 8
    /\ pq.heap_size = 4
    /\ StoredKeys(pq) \subseteq 1..6
    /\ pq.array[7] = 7

====
